---- MODULE Spec2Model ----
(***************************************************************************)
(* Session orchestration layer of the PC Build Assistant backend:          *)
(* the connection registry (connection_manager.py), the websocket dispatch *)
(* loop (main.py), the query pipeline (agent_service.py), the event sink   *)
(* of the engine (callback_handler.py) and the search tool                 *)
(* (search_tool.py).                                                       *)
(*                                                                         *)
(* One asyncio event loop runs the dispatch task of every websocket and    *)
(* the heartbeat task; code between two awaits is one atomic step.  The    *)
(* reasoning engine runs in worker threads of the default executor.        *)
(***************************************************************************)
EXTENDS Integers, Sequences, FiniteSets, TLC

(***************************************************************************)
(* Bounds of the model.                                                    *)
(***************************************************************************)
NumClients == 2
MaxMessages == 2
MaxDrops == 1
MaxSearches == 1
LenSlack == 2
MaxPad == 1
MaxEvents == 2
MaxCalls == 3
MaxSessions == 160

(***************************************************************************)
(* Program constants.                                                      *)
(***************************************************************************)
MAX_CONNECTIONS == 1
MIN_QUERY_LENGTH == 3
MAX_QUERY_LENGTH == 1000
FIELD_MAX_LENGTH == 1000
FIELD_MIN_LENGTH == 1
TERM_LENGTH == 4
SEARCH_RATE_LIMIT_DELAY == 1
SEARCH_TIMEOUT == 30
STOP_AFTER_ATTEMPT == 3
WAIT_MULTIPLIER == 1
WAIT_MIN == 4
WAIT_MAX == 10
CLEANUP_LIMIT == 100
CLEANUP_COUNT == 50

Clients == 1..NumClients

(***************************************************************************)
(* Query texts.  A text is abstracted to its length, the number of its     *)
(* leading and trailing whitespace characters, and the spelling of the     *)
(* forbidden term it contains, if any ("lower": as listed, "mixed": with   *)
(* upper-case letters).  Every forbidden term has at least TERM_LENGTH     *)
(* non-blank characters.                                                   *)
(***************************************************************************)
Lengths ==
  (0..(MIN_QUERY_LENGTH + LenSlack))
    \cup ((MAX_QUERY_LENGTH - LenSlack)..(MAX_QUERY_LENGTH + LenSlack))

Texts ==
  { t \in [len : Lengths, pad : 0..MaxPad, term : {"none", "lower", "mixed"}] :
      /\ t.pad <= t.len
      /\ t.term # "none" => t.len - t.pad >= TERM_LENGTH }

\* str.strip()
Strip(t) == [t EXCEPT !.len = t.len - t.pad, !.pad = 0]

\* str.lower()
Lower(t) == [t EXCEPT !.term = IF t.term = "mixed" THEN "lower" ELSE t.term]

\* any(term in text for term in forbidden_terms): the listed terms are lower case
ContainsForbidden(t) == t.term = "lower"

\* json.loads(data); UserQuery(**message_data): the field constraints are
\* checked on the text as sent, then the validator rejects a blank text
ParseOk(frame) ==
  /\ frame.json
  /\ frame.mapping
  /\ frame.text.len >= FIELD_MIN_LENGTH
  /\ frame.text.len <= FIELD_MAX_LENGTH
  /\ Strip(frame.text).len > 0

\* the validator returns v.strip()
UserQuery(frame) == Strip(frame.text)

\* the forbidden terms looked up in the query as typed
ForbiddenCheckCaseSensitive(q) == ContainsForbidden(q)

\* forbidden_terms against query.query.lower()
ForbiddenCheck(q) == ContainsForbidden(Lower(q))

TooShort(q) == q.len = 0 \/ Strip(q).len < MIN_QUERY_LENGTH

TooLong(q) == q.len > MAX_QUERY_LENGTH

\* PCBuildAgentService._validate_query: TRUE when no ValidationError is raised
ValidateQuery(q) == ~TooShort(q) /\ ~TooLong(q) /\ ~ForbiddenCheck(q)

NoText == [len |-> 0, pad |-> 0, term |-> "none"]

NoQuery == [text |-> NoText, busy |-> FALSE]

\* the frames the clients send: a text longer than the field allows, a valid
\* query, and a query too short once stripped
ClientFrames ==
  { [json |-> TRUE, mapping |-> TRUE,
     text |-> [len |-> MAX_QUERY_LENGTH + 1, pad |-> 1, term |-> "none"]],
    [json |-> TRUE, mapping |-> TRUE,
     text |-> [len |-> MIN_QUERY_LENGTH, pad |-> 0, term |-> "none"]],
    [json |-> TRUE, mapping |-> TRUE,
     text |-> [len |-> MIN_QUERY_LENGTH, pad |-> 1, term |-> "none"]] }

\* a frame that is JSON but no object, such as a number: json.loads returns
\* a value that UserQuery(**message_data) cannot unpack
ScalarFrame == [json |-> TRUE, mapping |-> FALSE, text |-> NoText]

\* UserQuery(**message_data) raises TypeError for a value that is no mapping
UnpackFails(frame) == frame.json /\ ~frame.mapping

(***************************************************************************)
(* State.                                                                  *)
(***************************************************************************)
VARIABLES
  active_connections,     \* ConnectionManager.active_connections (its keys)
  connection_info,        \* ConnectionManager.connection_info (its keys)
  expired,                \* sessions whose last_activity is older than CONNECTION_TIMEOUT
  processing_connections, \* ConnectionManager.processing_connections
  heartbeat_task,         \* ConnectionManager._heartbeat_task is set
  hb,                     \* heartbeat task: "none", "sleep", "gather", "scan"
  child,                  \* heartbeat send task of a session: "none", "send", "disc"
  todo,                   \* stale_connections still to disconnect
  cur,                    \* session the stale scan is closing, 0 when none
  ws,                     \* websocket of a client: "new", "open", "gone", "closed", "refused"
  inbox,                  \* frames sent by the client and not yet received
  pc,                     \* position of the dispatch task of a client
  site,                   \* call site of the send the dispatch task awaits
  pend,                   \* transport failure being handled by _send_to_connection
  query,                  \* user_query of the current loop iteration
  outcome,                \* how the last process_query call of the session ended
  exc,                    \* exception that ended websocket_endpoint's try block
  invocations,            \* worker threads inside agent.invoke, per session
  memory_cache,           \* PCBuildAgentService._memory_cache: its keys as inserted
  search_stats,           \* DDGSearchTool._search_stats
  sent,                   \* frames sent so far by all clients
  drops,                  \* transport losses so far
  disconnect_errors,      \* sessions for which a disconnect call raised
  max_connections,        \* settings.max_concurrent_connections, read at start-up
  memory_turns,           \* turns in the conversation memory of a session
  raised,                 \* events the engine raised for the current query of a session
  stream,                 \* messages sent to the client for the current query
  message_count,          \* WebSocketCallbackHandler.message_count of the current query
  attempts,               \* send_text calls made by the handler of the current query
  emit_exc,               \* what the last _send_message call of the handler raised
  unrecorded,             \* sessions with traffic that last_activity does not reflect
  search_call,            \* the search_async call of the worker thread of a session
  last_request,           \* seconds since RateLimiter.last_request, NoRequest for None
  last_issue,             \* seconds since the provider was last called, NoRequest if never
  calls_made,             \* search_sync calls made so far by all engines
  invoke_end,             \* how agent.invoke ended in the last awaited call of a session
  uncounted,              \* messages sent to a session that its message_count leaves out
  loops                   \* _heartbeat_loop tasks created and stopped so far

vars ==
  << active_connections, connection_info, expired, processing_connections,
     heartbeat_task, hb, child, todo, cur, ws, inbox, pc, site, pend, query,
     outcome, exc, invocations, memory_cache, search_stats, sent, drops,
     disconnect_errors, max_connections, memory_turns, raised, stream,
     message_count, attempts, emit_exc, unrecorded, search_call,
     last_request, last_issue, calls_made, invoke_end, uncounted, loops >>

\* the state as a record, so that the code between two awaits composes
Cur ==
  [ active_connections |-> active_connections,
    connection_info |-> connection_info,
    expired |-> expired,
    processing_connections |-> processing_connections,
    heartbeat_task |-> heartbeat_task,
    hb |-> hb, child |-> child, todo |-> todo, cur |-> cur,
    ws |-> ws, inbox |-> inbox, pc |-> pc, site |-> site, pend |-> pend,
    query |-> query, outcome |-> outcome, exc |-> exc,
    invocations |-> invocations, memory_cache |-> memory_cache,
    search_stats |-> search_stats, sent |-> sent, drops |-> drops,
    disconnect_errors |-> disconnect_errors,
    max_connections |-> max_connections,
    memory_turns |-> memory_turns,
    raised |-> raised, stream |-> stream,
    message_count |-> message_count, attempts |-> attempts,
    emit_exc |-> emit_exc, unrecorded |-> unrecorded,
    search_call |-> search_call, last_request |-> last_request,
    last_issue |-> last_issue, calls_made |-> calls_made,
    invoke_end |-> invoke_end, uncounted |-> uncounted, loops |-> loops ]

Becomes(S) ==
  /\ active_connections' = S.active_connections
  /\ connection_info' = S.connection_info
  /\ expired' = S.expired
  /\ processing_connections' = S.processing_connections
  /\ heartbeat_task' = S.heartbeat_task
  /\ hb' = S.hb
  /\ child' = S.child
  /\ todo' = S.todo
  /\ cur' = S.cur
  /\ ws' = S.ws
  /\ inbox' = S.inbox
  /\ pc' = S.pc
  /\ site' = S.site
  /\ pend' = S.pend
  /\ query' = S.query
  /\ outcome' = S.outcome
  /\ exc' = S.exc
  /\ invocations' = S.invocations
  /\ memory_cache' = S.memory_cache
  /\ search_stats' = S.search_stats
  /\ sent' = S.sent
  /\ drops' = S.drops
  /\ disconnect_errors' = S.disconnect_errors
  /\ max_connections' = S.max_connections
  /\ memory_turns' = S.memory_turns
  /\ raised' = S.raised
  /\ stream' = S.stream
  /\ message_count' = S.message_count
  /\ attempts' = S.attempts
  /\ emit_exc' = S.emit_exc
  /\ unrecorded' = S.unrecorded
  /\ search_call' = S.search_call
  /\ last_request' = S.last_request
  /\ last_issue' = S.last_issue
  /\ calls_made' = S.calls_made
  /\ invoke_end' = S.invoke_end
  /\ uncounted' = S.uncounted
  /\ loops' = S.loops

NoRequest == -1

\* no search_async call in a worker thread
NoCall ==
  [ at |-> "idle", attempt_number |-> 0, timer |-> 0, read |-> 0,
    raised |-> "none", delays |-> << >>, outcome |-> "none", runs |-> 0,
    failures |-> 0 ]

\* RateLimiter.__init__: last_request = None; no search has been made
SearchIdle ==
  /\ search_call = [c \in Clients |-> NoCall]
  /\ last_request = NoRequest
  /\ last_issue = NoRequest
  /\ calls_made = 0

\* ConnectionManager.__init__, PCBuildAgentService.__init__, DDGSearchTool.__init__
Init ==
  /\ active_connections = {}
  /\ connection_info = {}
  /\ expired = {}
  /\ processing_connections = {}
  /\ heartbeat_task = FALSE
  /\ hb = "none"
  /\ child = [c \in Clients |-> "none"]
  /\ todo = {}
  /\ cur = 0
  /\ ws = [c \in Clients |-> "new"]
  /\ inbox = [c \in Clients |-> << >>]
  /\ pc = [c \in Clients |-> "idle"]
  /\ site = [c \in Clients |-> "none"]
  /\ pend = [c \in Clients |-> "none"]
  /\ query = [c \in Clients |-> NoQuery]
  /\ outcome = [c \in Clients |-> "none"]
  /\ exc = [c \in Clients |-> "none"]
  /\ invocations = [c \in Clients |-> 0]
  /\ memory_cache = << >>
  /\ search_stats = [total_searches |-> 0, successful_searches |-> 0, failed_searches |-> 0]
  /\ sent = 0
  /\ drops = 0
  /\ disconnect_errors = {}
  /\ max_connections = MAX_CONNECTIONS
  /\ memory_turns = [c \in Clients |-> 0]
  /\ raised = [c \in Clients |-> << >>]
  /\ stream = [c \in Clients |-> << >>]
  /\ message_count = [c \in Clients |-> 0]
  /\ attempts = [c \in Clients |-> 0]
  /\ emit_exc = [c \in Clients |-> "none"]
  /\ unrecorded = {}
  /\ SearchIdle
  /\ invoke_end = [c \in Clients |-> "none"]
  /\ uncounted = [c \in Clients |-> 0]
  /\ loops = [started |-> 0, stopped |-> 0]

(***************************************************************************)
(* ConnectionManager (connection_manager.py).                              *)
(***************************************************************************)
\* the capacity check off by one
AtCapacityOffByOne(S) == Cardinality(S.active_connections) > S.max_connections

\* connect: len(self.active_connections) >= ConnectionConfig.MAX_CONNECTIONS
AtCapacity(S) == Cardinality(S.active_connections) >= S.max_connections

\* self._heartbeat_task.cancel(): the loop and the sends it gathers stop at
\* the await they are suspended in
CancelHeartbeat(S) ==
  [S EXCEPT !.heartbeat_task = FALSE,
            !.loops.stopped = @ + 1,
            !.hb = "none",
            !.child = [c \in Clients |-> "none"],
            !.todo = {},
            !.cur = 0]

\* a heartbeat task created by every connect
RegisterAlwaysStarts(S, c) ==
  [S EXCEPT !.active_connections = @ \cup {c},
            !.connection_info = @ \cup {c},
            !.ws[c] = "open",
            !.heartbeat_task = TRUE,
            !.hb = "sleep",
            !.loops.started = @ + 1]

\* the session stored without its metadata
RegisterWithoutInfo(S, c) ==
  LET S1 == [S EXCEPT !.active_connections = @ \cup {c}, !.ws[c] = "open"]
  IN IF Cardinality(S1.active_connections) = 1
       THEN [S1 EXCEPT !.heartbeat_task = TRUE, !.hb = "sleep",
                       !.loops.started = @ + 1]
       ELSE S1

\* connect, after accept() when below capacity: registers the session and
\* starts the heartbeat task with the first connection
Register(S, c) ==
  LET S1 == [S EXCEPT !.active_connections = @ \cup {c},
                      !.connection_info = @ \cup {c},
                      !.ws[c] = "open"]
  IN IF Cardinality(S1.active_connections) = 1
       THEN [S1 EXCEPT !.heartbeat_task = TRUE, !.hb = "sleep",
                       !.loops.started = @ + 1]
       ELSE S1

\* the session removed with its processing flag left set
DisconnectRemoveKeepsFlag(S, s) ==
  LET S1 == [S EXCEPT !.active_connections = @ \ {s},
                      !.connection_info = @ \ {s},
                      !.expired = @ \ {s},
                      !.unrecorded = @ \ {s},
                      !.uncounted[s] = 0]
  IN IF S1.active_connections = {} /\ S1.heartbeat_task
       THEN CancelHeartbeat(S1)
       ELSE S1

\* the heartbeat task cancelled by every disconnect
DisconnectRemoveCancels(S, s) ==
  CancelHeartbeat([S EXCEPT !.active_connections = @ \ {s},
                            !.connection_info = @ \ {s},
                            !.expired = @ \ {s},
                            !.unrecorded = @ \ {s},
                            !.uncounted[s] = 0,
                            !.processing_connections = @ \ {s}])

\* disconnect, after websocket.close() has returned or raised, for a session
\* that is still registered
DisconnectRemove(S, s) ==
  LET S1 == [S EXCEPT !.active_connections = @ \ {s},
                      !.connection_info = @ \ {s},
                      !.expired = @ \ {s},
                      !.unrecorded = @ \ {s},
                      !.uncounted[s] = 0,
                      !.processing_connections = @ \ {s}]
  IN IF S1.active_connections = {} /\ S1.heartbeat_task
       THEN CancelHeartbeat(S1)
       ELSE S1

\* disconnect, after websocket.close(), for a session another disconnect has
\* removed meanwhile: del self.active_connections[session_id] raises KeyError
DisconnectKeyError(S, s) == [S EXCEPT !.disconnect_errors = @ \cup {s}]

\* websocket.close() marks the connection closed by the application
Close(S, c) == [S EXCEPT !.ws[c] = "closed"]

\* _send_to_connection, after send_text() returned: last_activity = now()
\* and message_count += 1, which counts the message just sent
SendSucceeded(S, s) ==
  IF s \in S.connection_info
    THEN [S EXCEPT !.expired = @ \ {s}, !.unrecorded = @ \ {s}]
    ELSE S

\* _send_to_connection: what the except clauses raise for a transport failure
SendError(kind) ==
  IF kind = "WebSocketDisconnect" THEN "WebSocketDisconnect" ELSE "ConnectionError"

\* set_processing
SetProcessing(S, s, processing) ==
  IF processing
    THEN [S EXCEPT !.processing_connections = @ \cup {s}]
    ELSE [S EXCEPT !.processing_connections = @ \ {s}]

\* is_processing
IsProcessing(S, s) == s \in S.processing_connections

(***************************************************************************)
(* websocket_endpoint (main.py): the code the dispatch task of client c    *)
(* runs between two awaits.                                                *)
(***************************************************************************)
\* websocket_endpoint returns: its locals and the frames it never read are gone
Done(S, c) ==
  [S EXCEPT !.pc[c] = "done", !.site[c] = "none", !.query[c] = NoQuery,
            !.inbox[c] = << >>]

\* connect() raised: except Exception (line 222), finally with session_id None
EndpointExit(S, c, x) == Done([S EXCEPT !.exc[c] = x], c)

\* the endpoint left without the final disconnect
FinalCleanupMissing(S, c) == Done(S, c)

\* finally: await connection_manager.disconnect(session_id), up to close()
FinalCleanup(S, c) ==
  IF c \in S.active_connections
    THEN Close([S EXCEPT !.pc[c] = "final_disc", !.site[c] = "none", !.query[c] = NoQuery], c)
    ELSE Done(S, c)

\* except WebSocketDisconnect / except ConnectionError: break
Break(S, c, x) == FinalCleanup([S EXCEPT !.exc[c] = x], c)

\* the loop left without the internal error report
SendInternalSkipped(S, c) == FinalCleanup(S, c)

\* except Exception (line 207): send_error("internal_error"), whose failure
\* is swallowed, then break
SendInternal(S, c) ==
  IF c \notin S.active_connections
    THEN FinalCleanup(S, c)
    ELSE [S EXCEPT !.pc[c] = "send", !.site[c] = "internal"]

\* the except clauses of the message loop (lines 199-220)
LoopHandler(S, c, x) ==
  IF x \in {"WebSocketDisconnect", "ConnectionError"}
    THEN Break(S, c, x)
    ELSE SendInternal([S EXCEPT !.exc[c] = x], c)

\* exception x leaves _send_to_connection called at site st
Raise(S, c, st, x) ==
  CASE st = "welcome" -> EndpointExit(S, c, x)
    [] st \in {"parse", "rate"} -> LoopHandler(S, c, x)
    [] st = "query" -> LoopHandler(SetProcessing(S, c, FALSE), c, x)
    [] OTHER -> FinalCleanup(S, c)

\* send_error and _send_to_connection up to send_text()
SendBegin(S, c, st) ==
  IF c \notin S.active_connections
    THEN Raise(S, c, st, "ConnectionError")
    ELSE [S EXCEPT !.pc[c] = "send", !.site[c] = st]

\* back to "data = await websocket.receive_text()"
NextIteration(S, c) == [S EXCEPT !.pc[c] = "recv", !.site[c] = "none"]

\* the flag left set after the error report
AfterSendNoClear(S, c, st) ==
  IF st = "internal" THEN FinalCleanup(S, c) ELSE NextIteration(S, c)

\* the send awaited at site st returned
AfterSend(S, c, st) ==
  CASE st \in {"welcome", "parse", "rate"} -> NextIteration(S, c)
    [] st = "query" -> NextIteration(SetProcessing(S, c, FALSE), c)
    [] OTHER -> FinalCleanup(S, c)

(***************************************************************************)
(* WebSocketCallbackHandler (callback_handler.py): the event sink the      *)
(* engine calls from its worker thread.                                    *)
(***************************************************************************)
\* the callbacks of the handler
EventKinds ==
  { "llm_start", "llm_new_token", "llm_end", "llm_error", "tool_start",
    "tool_end", "tool_error", "agent_action", "agent_finish", "chain_start",
    "chain_end", "chain_error" }

\* the MessageType each callback passes to _send_message; "none" for the
\* callbacks that only log
MessageOf(e) ==
  CASE e \in {"llm_start", "tool_start", "tool_end", "agent_action"} -> "log"
    [] e = "llm_new_token" -> "token"
    [] e \in {"llm_error", "tool_error", "chain_error"} -> "error"
    [] e = "agent_finish" -> "final_output"
    [] OTHER -> "none"

\* WebSocketCallbackHandler.__init__, once per query (main.py line 240)
NewHandler(S, c) ==
  [S EXCEPT !.raised[c] = << >>, !.stream[c] = << >>, !.message_count[c] = 0,
            !.attempts[c] = 0, !.emit_exc[c] = "none"]

\* a message of the current query has reached the client
Delivered(S, c, kind, by) ==
  [S EXCEPT !.stream[c] = Append(@, [kind |-> kind, by |-> by])]

\* traffic of a registered session that does not go through
\* _send_to_connection leaves last_activity as it is
Unrecorded(S, c) ==
  IF c \in S.connection_info THEN [S EXCEPT !.unrecorded = @ \cup {c}] ELSE S

\* a message sent to a registered session on the websocket itself is not
\* added to connection_info[session_id]["message_count"]
Uncounted(S, c) ==
  IF c \in S.connection_info THEN [S EXCEPT !.uncounted[c] = @ + 1] ELSE S

\* the failed message counted all the same
SendMessageCountFirst(S, c, kind) ==
  LET S1 == [S EXCEPT !.attempts[c] = @ + 1, !.message_count[c] = @ + 1]
  IN IF S1.ws[c] = "open"
       THEN Uncounted(Unrecorded(Delivered([S1 EXCEPT !.emit_exc[c] = "none"],
                                           c, kind, "emitter"), c), c)
       ELSE [S1 EXCEPT !.emit_exc[c] = "ConnectionError"]

\* _send_message: one send_text on the websocket itself, counted when it
\* returned; any failure is raised as ConnectionError
SendMessage(S, c, kind) ==
  LET S1 == [S EXCEPT !.attempts[c] = @ + 1]
  IN IF S1.ws[c] = "open"
       THEN Uncounted(Unrecorded(Delivered([S1 EXCEPT !.message_count[c] = @ + 1,
                                                      !.emit_exc[c] = "none"],
                                           c, kind, "emitter"), c), c)
       ELSE [S1 EXCEPT !.emit_exc[c] = "ConnectionError"]

\* every callback sends a message
OnEventAlwaysSends(S, c, e) ==
  SendMessage([S EXCEPT !.raised[c] = Append(@, e)], c,
              IF MessageOf(e) = "none" THEN "log" ELSE MessageOf(e))

\* the callback for event e
OnEvent(S, c, e) ==
  LET S1 == [S EXCEPT !.raised[c] = Append(@, e)]
  IN IF MessageOf(e) = "none" THEN S1 ELSE SendMessage(S1, c, MessageOf(e))

\* the engine has raised its finish event: it raises nothing after it and
\* agent.invoke returns
Finished(S, c) ==
  S.raised[c] # << >> /\ S.raised[c][Len(S.raised[c])] = "agent_finish"

\* how agent.invoke can end once the engine is in this state
CanEnd(S, c, r) == (r = "return") <=> Finished(S, c)

\* the engine, on its normal return, appends the turn to the memory it was
\* built with (memory=memory, agent_service.py line 89)
SaveContext(S, c, r) ==
  IF r = "return" THEN [S EXCEPT !.memory_turns[c] = @ + 1] ELSE S

(***************************************************************************)
(* PCBuildAgentService.process_query (agent_service.py).                   *)
(***************************************************************************)
\* the keys of a dict, which lists them in the order of their insertion
Keys(d) == {d[i] : i \in 1..Len(d)}

\* _get_or_create_memory
GetOrCreateMemory(S, s) ==
  IF s \in Keys(S.memory_cache) THEN S ELSE [S EXCEPT !.memory_cache = Append(@, s)]

\* list(self._memory_cache.keys())[:50]
SessionsToRemove(d) == {d[i] : i \in 1..(IF Len(d) < CLEANUP_COUNT THEN Len(d) ELSE CLEANUP_COUNT)}

\* cleanup_old_sessions
CleanupOldSessions(S) ==
  IF Len(S.memory_cache) > CLEANUP_LIMIT
    THEN LET Kept(k) == k \notin SessionsToRemove(S.memory_cache)
         IN [S EXCEPT !.memory_cache = SelectSeq(@, Kept)]
    ELSE S

\* the scheduler's timeout let through
ConvertTimeoutMissing(e) == e

\* except asyncio.TimeoutError: raise TimeoutError(...)
ConvertTimeout(e) == IF e = "asyncio.TimeoutError" THEN "TimeoutError" ELSE e

\* every exception wrapped, the classified ones too
ClassifyWrapsAll(e) == "AgentError"

\* except Exception as e: re-raise the classified errors, wrap the others
Classify(e) ==
  IF e \in {"ValidationError", "AgentError", "TimeoutError"} THEN e ELSE "AgentError"

\* the parsing failure raised like any other failure of the engine
ExecuteAgentNoFallback(r) ==
  IF r = "return" THEN "Response" ELSE "AgentError"

\* _execute_agent: what the worker thread hands back for each way
\* agent.invoke can end
ExecuteAgent(r) ==
  CASE r = "return" -> "Response"
    [] r = "OutputParserException" -> "Fallback"
    [] OTHER -> "AgentError"

\* process_query raised e: main.py reports it with send_error (lines 182-193)
QueryFailed(S, c, e) ==
  SendBegin([S EXCEPT !.outcome[c] = Classify(e)], c, "query")

\* process_query returned: finally set_processing(False), next iteration
QueryReturned(S, c, r) ==
  NextIteration(SetProcessing([S EXCEPT !.outcome[c] = r], c, FALSE), c)

\* process_user_query and process_query up to the await of the engine:
\* a is how _create_agent ends
ProcessQuery(S0, c, a) ==
  LET S == NewHandler([S0 EXCEPT !.invoke_end[c] = "none"], c)
  IN IF ~ValidateQuery(S.query[c].text)
       THEN QueryFailed(S, c, "ValidationError")
     ELSE IF a = "llm_error"
       THEN QueryFailed(S, c, "AgentError")
     ELSE IF a = "init_error"
       THEN QueryFailed(GetOrCreateMemory(S, c), c, "AgentError")
     ELSE [GetOrCreateMemory(S, c) EXCEPT !.invocations[c] = @ + 1,
                                          !.pc[c] = "await_engine"]

\* the flag set only once the query has passed validation
DispatchValidateFirst(S, c, frame, busy, a) ==
  IF UnpackFails(frame)
    THEN LoopHandler(S, c, "TypeError")
  ELSE IF ~ParseOk(frame)
    THEN SendBegin(S, c, "parse")
  ELSE IF IsProcessing(S, c)
    THEN SendBegin(S, c, "rate")
  ELSE IF ~ValidateQuery(UserQuery(frame))
    THEN ProcessQuery([S EXCEPT !.query[c] = [text |-> UserQuery(frame), busy |-> busy]], c, a)
  ELSE ProcessQuery(
         SetProcessing([S EXCEPT !.query[c] = [text |-> UserQuery(frame), busy |-> busy]],
                       c, TRUE),
         c, a)

\* the message loop from a received frame to its first await (lines 154-180)
Dispatch(S, c, frame, busy, a) ==
  IF UnpackFails(frame)
    THEN LoopHandler(S, c, "TypeError")
  ELSE IF ~ParseOk(frame)
    THEN SendBegin(S, c, "parse")
  ELSE IF IsProcessing(S, c)
    THEN SendBegin(S, c, "rate")
  ELSE ProcessQuery(
         SetProcessing([S EXCEPT !.query[c] = [text |-> UserQuery(frame), busy |-> busy]],
                       c, TRUE),
         c, a)

(***************************************************************************)
(* Actions of the dispatch task of client c.                               *)
(***************************************************************************)
\* the session stored before the capacity check
ConnectStoreBeforeCheck(c) ==
  /\ pc[c] = "idle"
  /\ \A d \in Clients : d < c => pc[d] # "idle"
  /\ IF AtCapacity(Cur)
       THEN Becomes([Register(Cur, c) EXCEPT !.ws[c] = "refused", !.pc[c] = "rejecting"])
       ELSE Becomes(SendBegin(Register(Cur, c), c, "welcome"))

\* websocket_endpoint is started for a new websocket (the websockets are
\* numbered in the order they arrive); connect() runs from the return of
\* accept() to its first await
Connect(c) ==
  /\ pc[c] = "idle"
  /\ \A d \in Clients : d < c => pc[d] # "idle"
  /\ IF AtCapacity(Cur)
       THEN Becomes([Cur EXCEPT !.ws[c] = "refused", !.pc[c] = "rejecting"])
       ELSE Becomes(SendBegin(Register(Cur, c), c, "welcome"))

\* close(code=1013) returned: connect raises ConnectionError
ConnectRejected(c) ==
  /\ pc[c] = "rejecting"
  /\ Becomes(EndpointExit(Cur, c, "ConnectionError"))

\* send_text() returned
SendDone(c) ==
  /\ pc[c] = "send"
  /\ ws[c] = "open"
  /\ LET S1 == SendSucceeded(Cur, c)
         S2 == CASE site[c] = "query" -> Delivered(S1, c, "error", "registry")
                 [] site[c] = "internal" -> Delivered(S1, c, "error", "internal")
                 [] OTHER -> S1
     IN Becomes(AfterSend(S2, c, site[c]))

\* the failure of send_text() raised to the caller without the disconnect
SendFailedNoDisconnect(c, kind) ==
  /\ pc[c] = "send"
  /\ ws[c] # "open"
  /\ Becomes(Raise(Cur, c, site[c], SendError(kind)))

\* send_text() raised: _send_to_connection calls disconnect, which awaits
\* close() when the session is registered and returns at once otherwise
SendFailed(c, kind) ==
  /\ pc[c] = "send"
  /\ ws[c] # "open"
  /\ IF c \in active_connections
       THEN Becomes(Close([Cur EXCEPT !.pc[c] = "send_disc", !.pend[c] = kind], c))
       ELSE Becomes(Raise(Cur, c, site[c], SendError(kind)))

\* the close() awaited by the disconnect inside _send_to_connection is over
SendDisconnected(c) ==
  /\ pc[c] = "send_disc"
  /\ IF c \in active_connections
       THEN Becomes(Raise(DisconnectRemove([Cur EXCEPT !.pend[c] = "none"], c),
                          c, site[c], SendError(pend[c])))
       ELSE Becomes(Raise(DisconnectKeyError([Cur EXCEPT !.pend[c] = "none"], c),
                          c, site[c], "KeyError"))

\* receive_text() returned a frame
ReceiveMessage(c, a) ==
  /\ pc[c] = "recv"
  /\ inbox[c] # << >>
  /\ ws[c] \in {"open", "gone"}
  /\ Becomes(Dispatch(Unrecorded([Cur EXCEPT !.inbox[c] = Tail(@)], c), c,
                      Head(inbox[c]).frame, Head(inbox[c]).busy, a))

\* receive_text() raised: the client is gone, or the server closed the socket
ReceiveDisconnect(c, x) ==
  /\ pc[c] = "recv"
  /\ \/ ws[c] = "gone" /\ inbox[c] = << >> /\ x = "WebSocketDisconnect"
     \/ ws[c] = "closed"
  /\ Becomes(LoopHandler(Cur, c, x))

\* the worker thread finished before the timeout: r is how agent.invoke ended
EngineDone(c, r) ==
  /\ pc[c] = "await_engine"
  /\ CanEnd(Cur, c, r)
  /\ LET S1 == SaveContext([Cur EXCEPT !.invocations[c] = @ - 1,
                                        !.invoke_end[c] = r], c, r)
     IN IF ExecuteAgent(r) = "AgentError"
          THEN Becomes(QueryFailed(S1, c, ExecuteAgent(r)))
          ELSE Becomes(QueryReturned(S1, c, ExecuteAgent(r)))

\* asyncio.wait_for timed out: the worker thread is not stopped
EngineTimeout(c) ==
  /\ pc[c] = "await_engine"
  /\ Becomes(QueryFailed(Cur, c, ConvertTimeout("asyncio.TimeoutError")))

\* a worker thread nobody awaits any more comes back from agent.invoke
WorkerReturn(c, r) ==
  /\ invocations[c] > (IF pc[c] = "await_engine" THEN 1 ELSE 0)
  /\ CanEnd(Cur, c, r)
  /\ Becomes(SaveContext([Cur EXCEPT !.invocations[c] = @ - 1], c, r))

\* a running engine raises event e: the handler's callback runs
Emit(c, e) ==
  /\ invocations[c] > 0
  /\ ~Finished(Cur, c)
  /\ Len(raised[c]) < MaxEvents
  /\ Becomes(OnEvent(Cur, c, e))

\* a running engine calls the search tool
WorkerSearch(c, ok) ==
  /\ invocations[c] > 0
  /\ search_stats.total_searches < MaxSearches
  /\ Becomes([Cur EXCEPT
       !.search_stats.total_searches = @ + 1,
       !.search_stats.successful_searches = IF ok THEN @ + 1 ELSE @,
       !.search_stats.failed_searches = IF ok THEN @ ELSE @ + 1])

\* the close() awaited by the final disconnect is over
FinalDisconnected(c) ==
  /\ pc[c] = "final_disc"
  /\ IF c \in active_connections
       THEN Becomes(DisconnectRemove(Done(Cur, c), c))
       ELSE Becomes(DisconnectKeyError(Done([Cur EXCEPT !.exc[c] = "KeyError"], c), c))

(***************************************************************************)
(* The clients.                                                            *)
(***************************************************************************)
ClientSend(c, frame) ==
  /\ ws[c] = "open"
  /\ inbox[c] = << >>
  /\ sent < MaxMessages
  /\ Becomes([Cur EXCEPT !.inbox[c] = << [frame |-> frame, busy |-> pc[c] = "await_engine"] >>,
                         !.sent = @ + 1])

ClientDrop(c) ==
  /\ ws[c] = "open"
  /\ drops < MaxDrops
  /\ Becomes([Cur EXCEPT !.ws[c] = "gone", !.drops = @ + 1])

(***************************************************************************)
(* The heartbeat task (_heartbeat_loop).                                   *)
(***************************************************************************)
\* asyncio.sleep returned: one send task per registered session
HbWake ==
  /\ hb = "sleep"
  /\ Becomes([Cur EXCEPT
       !.hb = "gather",
       !.child = [s \in Clients |-> IF s \in active_connections THEN "send" ELSE "none"]])

\* _send_heartbeat_to_connection: send_text() returned
HbSendDone(s) ==
  /\ child[s] = "send"
  /\ ws[s] = "open"
  /\ Becomes(SendSucceeded([Cur EXCEPT !.child[s] = "none"], s))

\* _send_heartbeat_to_connection: send_text() raised; whatever
\* _send_to_connection raises is caught, and the second disconnect finds the
\* session removed
HbSendFailed(s) ==
  /\ child[s] = "send"
  /\ ws[s] # "open"
  /\ IF s \in active_connections
       THEN Becomes(Close([Cur EXCEPT !.child[s] = "disc"], s))
       ELSE Becomes([Cur EXCEPT !.child[s] = "none"])

HbDisconnected(s) ==
  /\ child[s] = "disc"
  /\ IF s \in active_connections
       THEN Becomes(DisconnectRemove([Cur EXCEPT !.child[s] = "none"], s))
       ELSE Becomes(DisconnectKeyError([Cur EXCEPT !.child[s] = "none"], s))

\* last_activity is read by the stale scan alone, which runs when the gather
\* ends: a session is stale there only if the window elapsed during the
\* gather, that is while one of the heartbeat sends was still awaited
TimePasses(s) ==
  /\ hb = "gather"
  /\ \E t \in Clients : child[t] # "none"
  /\ s \in connection_info \ expired
  /\ Becomes([Cur EXCEPT !.expired = @ \cup {s}])

\* _cleanup_stale_connections: the list of stale sessions
StaleConnections(S) == S.connection_info \cap S.expired

\* the stale scan has nothing left: back to "while self.active_connections"
ScanContinue(S) ==
  IF S.hb = "scan" /\ S.cur = 0 /\ S.todo = {} THEN [S EXCEPT !.hb = "sleep"] ELSE S

\* gather returned
HbGatherDone ==
  /\ hb = "gather"
  /\ \A s \in Clients : child[s] = "none"
  /\ Becomes(ScanContinue([Cur EXCEPT !.hb = "scan", !.todo = StaleConnections(Cur)]))

\* the scan calls disconnect for its next stale session
HbScanNext(s) ==
  /\ hb = "scan"
  /\ cur = 0
  /\ s \in todo
  /\ IF s \in active_connections
       THEN Becomes(Close([Cur EXCEPT !.cur = s, !.todo = @ \ {s}], s))
       ELSE Becomes(ScanContinue([Cur EXCEPT !.todo = @ \ {s}]))

\* the close() awaited by the scan's disconnect is over; a KeyError ends the
\* scan in the loop's "except Exception"
HbScanDisconnected ==
  /\ hb = "scan"
  /\ cur # 0
  /\ IF cur \in active_connections
       THEN Becomes(ScanContinue(DisconnectRemove([Cur EXCEPT !.cur = 0], cur)))
       ELSE Becomes(DisconnectKeyError([Cur EXCEPT !.cur = 0, !.todo = {}, !.hb = "sleep"], cur))

(***************************************************************************)
(* DDGSearchTool (search_tool.py).  The engine of a session calls          *)
(* search_sync from its worker thread, which runs search_async on an event *)
(* loop of its own: the calls of two sessions run in parallel on the one   *)
(* tool of the service.  Time is counted in seconds; a statement takes no  *)
(* time, only awaits do.                                                   *)
(***************************************************************************)
Min(a, b) == IF a < b THEN a ELSE b

Max(a, b) == IF a > b THEN a ELSE b

\* tenacity wait_exponential(multiplier, min, max) for the attempt that
\* failed: multiplier * 2 ** (attempt_number - 1), clamped to [min, max]
WaitExponential(n) ==
  Max(Max(0, WAIT_MIN), Min(WAIT_MULTIPLIER * 2 ^ (n - 1), WAIT_MAX))

\* one more attempt allowed
ShouldStopLate(n) == n > STOP_AFTER_ATTEMPT

\* stop_after_attempt(3)
ShouldStop(n) == n >= STOP_AFTER_ATTEMPT

\* every exception retried
ShouldRetryAny(e) == TRUE

\* retry_if_exception_type((SearchError, RateLimitError))
ShouldRetry(e) == e \in {"SearchError", "RateLimitError"}

\* search_async lines 71-77: what an attempt raises for the way the wait for
\* _perform_search ended
AttemptRaises(r) == IF r = "asyncio.TimeoutError" THEN "TimeoutError" ELSE "SearchError"

\* the retrying wrapper is left: search_sync hands a string back to the engine
EndCall(S, t, res) ==
  [S EXCEPT !.search_call[t].at = "idle",
            !.search_call[t].outcome = res,
            !.search_call[t].read = 0,
            !.search_call[t].raised = "none"]

\* the wrapper after an attempt raised e: reraise what is not retried, give
\* up with RetryError at the last attempt, otherwise sleep the backoff
AfterFailure(S, t, e) ==
  IF ~ShouldRetry(e)
    THEN EndCall(S, t, e)
  ELSE IF ShouldStop(S.search_call[t].attempt_number)
    THEN EndCall(S, t, "RetryError")
  ELSE [S EXCEPT !.search_call[t].at = "backoff",
                 !.search_call[t].raised = "none",
                 !.search_call[t].read = 0,
                 !.search_call[t].timer = WaitExponential(S.search_call[t].attempt_number),
                 !.search_call[t].delays =
                    Append(@, WaitExponential(S.search_call[t].attempt_number))]

\* wait_if_needed line 31 and search_async line 55 up to the read of the
\* counter that "+= 1" is about to store
BeginAttempt(S, t) ==
  [S EXCEPT !.last_request = 0,
            !.search_call[t].at = "count_total",
            !.search_call[t].read = S.search_stats.total_searches]

\* RateLimiter.wait_if_needed up to its sleep
WaitIfNeeded(S, t) ==
  IF S.last_request # NoRequest /\ S.last_request < SEARCH_RATE_LIMIT_DELAY
    THEN [S EXCEPT !.search_call[t].at = "throttle",
                   !.search_call[t].timer = SEARCH_RATE_LIMIT_DELAY - S.last_request]
    ELSE BeginAttempt(S, t)

\* the engine of session t calls the tool: attempt 1 of search_async
SearchCall(t) ==
  /\ invocations[t] > 0
  /\ search_call[t].at = "idle"
  /\ calls_made < MaxCalls
  /\ Becomes(WaitIfNeeded([Cur EXCEPT !.calls_made = @ + 1,
                                      !.search_call[t] = [NoCall EXCEPT !.attempt_number = 1]],
                          t))

\* the sleep of wait_if_needed is over
ThrottleWake(t) ==
  /\ search_call[t].at = "throttle"
  /\ search_call[t].timer = 0
  /\ Becomes(BeginAttempt(Cur, t))

\* total_searches is stored and _perform_search is handed to the executor
CountTotal(t) ==
  /\ search_call[t].at = "count_total"
  /\ Becomes([Cur EXCEPT !.search_stats.total_searches = search_call[t].read + 1,
                         !.last_issue = 0,
                         !.search_call[t].at = "run",
                         !.search_call[t].read = 0,
                         !.search_call[t].runs = @ + 1,
                         !.search_call[t].timer = SEARCH_TIMEOUT])

\* _perform_search came back in time, with results or with the SearchError
\* it wraps every failure in: the counter of the outcome is read
SearchEnds(t, r) ==
  /\ search_call[t].at = "run"
  /\ IF r = "results"
       THEN Becomes([Cur EXCEPT !.search_call[t].at = "count_ok",
                                !.search_call[t].timer = 0,
                                !.search_call[t].read = search_stats.successful_searches])
       ELSE Becomes([Cur EXCEPT !.search_call[t].at = "count_failed",
                                !.search_call[t].timer = 0,
                                !.search_call[t].raised = AttemptRaises(r),
                                !.search_call[t].read = search_stats.failed_searches])

\* wait_for gave up after search_timeout seconds
SearchTimesOut(t) ==
  /\ search_call[t].at = "run"
  /\ search_call[t].timer = 0
  /\ Becomes([Cur EXCEPT !.search_call[t].at = "count_failed",
                         !.search_call[t].raised = AttemptRaises("asyncio.TimeoutError"),
                         !.search_call[t].read = search_stats.failed_searches])

\* the counter of the outcome is stored and the attempt is over
CountOutcome(t) ==
  /\ search_call[t].at \in {"count_ok", "count_failed"}
  /\ IF search_call[t].at = "count_ok"
       THEN Becomes(EndCall([Cur EXCEPT !.search_stats.successful_searches =
                                           search_call[t].read + 1],
                            t, "results"))
       ELSE Becomes(AfterFailure([Cur EXCEPT !.search_stats.failed_searches =
                                                search_call[t].read + 1,
                                             !.search_call[t].failures = @ + 1],
                                 t, search_call[t].raised))

\* the backoff sleep is over: the next attempt
BackoffWake(t) ==
  /\ search_call[t].at = "backoff"
  /\ search_call[t].timer = 0
  /\ Becomes(WaitIfNeeded([Cur EXCEPT !.search_call[t].attempt_number = @ + 1], t))

Timed(S, t) == S.search_call[t].at \in {"throttle", "backoff", "run"}

Counting(S, t) == S.search_call[t].at \in {"count_total", "count_ok", "count_failed"}

Age(a) ==
  IF a = NoRequest THEN a ELSE Min(a + 1, SEARCH_RATE_LIMIT_DELAY)

\* one second passes: no sleep or timeout is overdue and no thread is in the
\* middle of a statement
Tick ==
  /\ \/ \E t \in Clients : Timed(Cur, t)
     \/ Age(last_request) # last_request
     \/ Age(last_issue) # last_issue
  /\ \A t \in Clients : Timed(Cur, t) => search_call[t].timer > 0
  /\ \A t \in Clients : ~Counting(Cur, t)
  /\ Becomes([Cur EXCEPT
       !.last_request = Age(@),
       !.last_issue = Age(@),
       !.search_call = [t \in Clients |->
                          IF Timed(Cur, t)
                            THEN [search_call[t] EXCEPT !.timer = @ - 1]
                            ELSE search_call[t]]])

(***************************************************************************)
(* Specification.                                                          *)
(***************************************************************************)
CreateOutcomes == {"ok", "llm_error", "init_error"}
InvokeOutcomes == {"return", "OutputParserException", "Exception"}
FailureKinds == {"WebSocketDisconnect", "Exception"}

Next ==
  \/ \E c \in Clients : Connect(c)
  \/ \E c \in Clients : ConnectRejected(c)
  \/ \E c \in Clients : SendDone(c)
  \/ \E c \in Clients, kind \in FailureKinds : SendFailed(c, kind)
  \/ \E c \in Clients : SendDisconnected(c)
  \/ \E c \in Clients, a \in CreateOutcomes : ReceiveMessage(c, a)
  \/ \E c \in Clients, x \in {"WebSocketDisconnect", "RuntimeError"} : ReceiveDisconnect(c, x)
  \/ \E c \in Clients, r \in InvokeOutcomes : EngineDone(c, r)
  \/ \E c \in Clients : EngineTimeout(c)
  \/ \E c \in Clients, r \in InvokeOutcomes : WorkerReturn(c, r)
  \/ \E c \in Clients : Emit(c, "agent_finish")
  \/ \E c \in Clients : FinalDisconnected(c)
  \/ \E c \in Clients, frame \in ClientFrames : ClientSend(c, frame)
  \/ \E c \in Clients : ClientDrop(c)
  \/ HbWake
  \/ \E s \in Clients : HbSendDone(s)
  \/ \E s \in Clients : HbSendFailed(s)
  \/ \E s \in Clients : HbDisconnected(s)
  \/ \E s \in Clients : TimePasses(s)
  \/ HbGatherDone

Spec == Init /\ [][Next]_vars

(***************************************************************************)
(* The same server with clients that also send JSON values that are no     *)
(* objects.                                                                *)
(***************************************************************************)
NextBoundary ==
  \/ Next
  \/ \E c \in Clients : ClientSend(c, ScalarFrame)

SpecBoundary == Init /\ [][NextBoundary]_vars

(***************************************************************************)
(* process_query called with any UserQuery object: the session is as the   *)
(* message loop leaves it at line 180, registered and marked as            *)
(* processing.  The engine raises any events and the call runs to its end. *)
(***************************************************************************)
DirectCall(c, a) ==
  /\ pc[c] = "call"
  /\ Becomes(ProcessQuery(Cur, c, a))

InitCall(t) ==
  /\ active_connections = {1}
  /\ connection_info = {1}
  /\ expired = {}
  /\ processing_connections = {1}
  /\ heartbeat_task = TRUE
  /\ hb = "sleep"
  /\ child = [c \in Clients |-> "none"]
  /\ todo = {}
  /\ cur = 0
  /\ ws = [c \in Clients |-> IF c = 1 THEN "open" ELSE "new"]
  /\ inbox = [c \in Clients |-> << >>]
  /\ pc = [c \in Clients |-> IF c = 1 THEN "call" ELSE "idle"]
  /\ site = [c \in Clients |-> "none"]
  /\ pend = [c \in Clients |-> "none"]
  /\ query = [c \in Clients |-> IF c = 1 THEN [text |-> t, busy |-> FALSE] ELSE NoQuery]
  /\ outcome = [c \in Clients |-> "none"]
  /\ exc = [c \in Clients |-> "none"]
  /\ invocations = [c \in Clients |-> 0]
  /\ memory_cache = << >>
  /\ search_stats = [total_searches |-> 0, successful_searches |-> 0, failed_searches |-> 0]
  /\ sent = 0
  /\ drops = 0
  /\ disconnect_errors = {}
  /\ max_connections = MAX_CONNECTIONS
  /\ memory_turns = [c \in Clients |-> 0]
  /\ raised = [c \in Clients |-> << >>]
  /\ stream = [c \in Clients |-> << >>]
  /\ message_count = [c \in Clients |-> 0]
  /\ attempts = [c \in Clients |-> 0]
  /\ emit_exc = [c \in Clients |-> "none"]
  /\ unrecorded = {}
  /\ SearchIdle
  /\ invoke_end = [c \in Clients |-> "none"]
  /\ uncounted = [c \in Clients |-> 0]
  /\ loops = [started |-> 1, stopped |-> 0]

InitDirect == \E t \in Texts : InitCall(t)

NextDirect ==
  \/ \E c \in Clients, a \in CreateOutcomes : DirectCall(c, a)
  \/ \E c \in Clients, ok \in BOOLEAN : WorkerSearch(c, ok)
  \/ \E c \in Clients, r \in InvokeOutcomes : EngineDone(c, r)
  \/ \E c \in Clients : EngineTimeout(c)
  \/ \E c \in Clients, r \in InvokeOutcomes : WorkerReturn(c, r)
  \/ \E c \in Clients, e \in EventKinds : Emit(c, e)
  \/ \E c \in Clients : SendDone(c)

SpecDirect == InitDirect /\ [][NextDirect]_vars

(***************************************************************************)
(* The same call on a connection that can be lost at any moment: the sends *)
(* of the handler and of the registry can fail, and the endpoint ends when *)
(* the client is gone.  No further frame arrives.  The query is one the    *)
(* message loop has parsed from a frame.                                   *)
(***************************************************************************)
InitStream == \E frame \in ClientFrames : ParseOk(frame) /\ InitCall(UserQuery(frame))

NextStream ==
  \/ NextDirect
  \/ \E c \in Clients, kind \in FailureKinds : SendFailed(c, kind)
  \/ \E c \in Clients : SendDisconnected(c)
  \/ \E c \in Clients, x \in {"WebSocketDisconnect", "RuntimeError"} : ReceiveDisconnect(c, x)
  \/ \E c \in Clients : FinalDisconnected(c)
  \/ \E c \in Clients : ClientDrop(c)

SpecStream == InitStream /\ [][NextStream]_vars

\* the steps of the dispatch task of client c in that call: the event loop
\* resumes a task whose await is over, and the wait for the engine ends
\* with the timeout at the latest
StreamStep(c) ==
  \/ \E a \in CreateOutcomes : DirectCall(c, a)
  \/ \E r \in InvokeOutcomes : EngineDone(c, r)
  \/ EngineTimeout(c)
  \/ SendDone(c)
  \/ \E kind \in FailureKinds : SendFailed(c, kind)
  \/ SendDisconnected(c)
  \/ \E x \in {"WebSocketDisconnect", "RuntimeError"} : ReceiveDisconnect(c, x)
  \/ FinalDisconnected(c)

SpecStreamFair == SpecStream /\ \A c \in Clients : WF_vars(StreamStep(c))

(***************************************************************************)
(* Two sessions connected under a capacity of two: their welcome messages  *)
(* are sent, their dispatch tasks wait for a frame and the heartbeat task  *)
(* sleeps.                                                                 *)
(***************************************************************************)
InitHeartbeat ==
  /\ active_connections = Clients
  /\ connection_info = Clients
  /\ expired = {}
  /\ processing_connections = {}
  /\ heartbeat_task = TRUE
  /\ hb = "sleep"
  /\ child = [c \in Clients |-> "none"]
  /\ todo = {}
  /\ cur = 0
  /\ ws = [c \in Clients |-> "open"]
  /\ inbox = [c \in Clients |-> << >>]
  /\ pc = [c \in Clients |-> "recv"]
  /\ site = [c \in Clients |-> "none"]
  /\ pend = [c \in Clients |-> "none"]
  /\ query = [c \in Clients |-> NoQuery]
  /\ outcome = [c \in Clients |-> "none"]
  /\ exc = [c \in Clients |-> "none"]
  /\ invocations = [c \in Clients |-> 0]
  /\ memory_cache = << >>
  /\ search_stats = [total_searches |-> 0, successful_searches |-> 0, failed_searches |-> 0]
  /\ sent = 0
  /\ drops = 0
  /\ disconnect_errors = {}
  /\ max_connections = NumClients
  /\ memory_turns = [c \in Clients |-> 0]
  /\ raised = [c \in Clients |-> << >>]
  /\ stream = [c \in Clients |-> << >>]
  /\ message_count = [c \in Clients |-> 0]
  /\ attempts = [c \in Clients |-> 0]
  /\ emit_exc = [c \in Clients |-> "none"]
  /\ unrecorded = {}
  /\ SearchIdle
  /\ invoke_end = [c \in Clients |-> "none"]
  /\ uncounted = [c \in Clients |-> 0]
  /\ loops = [started |-> 1, stopped |-> 0]

\* the heartbeat task and the send tasks it gathers
HeartbeatStep ==
  \/ HbWake
  \/ \E s \in Clients : HbSendDone(s)
  \/ \E s \in Clients : HbSendFailed(s)
  \/ \E s \in Clients : HbDisconnected(s)
  \/ HbGatherDone
  \/ \E s \in Clients : HbScanNext(s)
  \/ HbScanDisconnected

\* the clients send nothing: a dispatch task only ends, when its client is
\* gone or the server closed its websocket
NextIdle ==
  \/ HeartbeatStep
  \/ \E s \in Clients : TimePasses(s)
  \/ \E c \in Clients : ClientDrop(c)
  \/ \E c \in Clients, x \in {"WebSocketDisconnect", "RuntimeError"} : ReceiveDisconnect(c, x)
  \/ \E c \in Clients : FinalDisconnected(c)

\* the event loop resumes every task whose await is over, and the clock
\* advances
SpecIdle ==
  /\ InitHeartbeat
  /\ [][NextIdle]_vars
  /\ WF_vars(HeartbeatStep)
  /\ \A s \in Clients : WF_vars(TimePasses(s))
  /\ \A c \in Clients :
       WF_vars(\/ \E x \in {"WebSocketDisconnect", "RuntimeError"} : ReceiveDisconnect(c, x)
               \/ FinalDisconnected(c))

\* the same two sessions with clients that send frames; every engine ends
\* before the timeout of its query
NextHeartbeat ==
  \/ NextIdle
  \/ \E c \in Clients : SendDone(c)
  \/ \E c \in Clients, kind \in FailureKinds : SendFailed(c, kind)
  \/ \E c \in Clients : SendDisconnected(c)
  \/ \E c \in Clients, a \in CreateOutcomes : ReceiveMessage(c, a)
  \/ \E c \in Clients, r \in InvokeOutcomes : EngineDone(c, r)
  \/ \E c \in Clients : Emit(c, "agent_finish")
  \/ \E c \in Clients, frame \in ClientFrames : ClientSend(c, frame)

SpecHeartbeat == InitHeartbeat /\ [][NextHeartbeat]_vars

(***************************************************************************)
(* The search tool used by the engines of two sessions at once: both       *)
(* sessions are registered under a capacity of two and each has a valid    *)
(* query in execution, its engine running in a worker thread.              *)
(***************************************************************************)
PerformOutcomes == {"results", "SearchError"}

InitSearch ==
  /\ active_connections = Clients
  /\ connection_info = Clients
  /\ expired = {}
  /\ processing_connections = Clients
  /\ heartbeat_task = TRUE
  /\ hb = "sleep"
  /\ child = [c \in Clients |-> "none"]
  /\ todo = {}
  /\ cur = 0
  /\ ws = [c \in Clients |-> "open"]
  /\ inbox = [c \in Clients |-> << >>]
  /\ pc = [c \in Clients |-> "await_engine"]
  /\ site = [c \in Clients |-> "none"]
  /\ pend = [c \in Clients |-> "none"]
  /\ query = [c \in Clients |->
                [text |-> [len |-> MIN_QUERY_LENGTH, pad |-> 0, term |-> "none"],
                 busy |-> FALSE]]
  /\ outcome = [c \in Clients |-> "none"]
  /\ exc = [c \in Clients |-> "none"]
  /\ invocations = [c \in Clients |-> 1]
  /\ memory_cache = [c \in Clients |-> c]
  /\ search_stats = [total_searches |-> 0, successful_searches |-> 0, failed_searches |-> 0]
  /\ sent = 0
  /\ drops = 0
  /\ disconnect_errors = {}
  /\ max_connections = NumClients
  /\ memory_turns = [c \in Clients |-> 0]
  /\ raised = [c \in Clients |-> << >>]
  /\ stream = [c \in Clients |-> << >>]
  /\ message_count = [c \in Clients |-> 0]
  /\ attempts = [c \in Clients |-> 0]
  /\ emit_exc = [c \in Clients |-> "none"]
  /\ unrecorded = {}
  /\ SearchIdle
  /\ invoke_end = [c \in Clients |-> "none"]
  /\ uncounted = [c \in Clients |-> 0]
  /\ loops = [started |-> 1, stopped |-> 0]

NextSearch ==
  \/ \E t \in Clients : SearchCall(t)
  \/ \E t \in Clients : ThrottleWake(t)
  \/ \E t \in Clients : CountTotal(t)
  \/ \E t \in Clients, r \in PerformOutcomes : SearchEnds(t, r)
  \/ \E t \in Clients : SearchTimesOut(t)
  \/ \E t \in Clients : CountOutcome(t)
  \/ \E t \in Clients : BackoffWake(t)
  \/ Tick

SpecSearch == InitSearch /\ [][NextSearch]_vars

(***************************************************************************)
(* The memory cache over the life of the process.  Sessions come and go;   *)
(* each one that had a query processed left its memory in the cache, which *)
(* nothing but the hourly cleanup removes.  Only the cache is followed:    *)
(* the sessions are numbered in the order of their first query.            *)
(***************************************************************************)
\* the id of a session that has no memory yet
NewSession(S) ==
  IF S.memory_cache = << >> THEN 1 ELSE S.memory_cache[Len(S.memory_cache)] + 1

\* process_query of the first query of a session: its memory is created
MemoryCreated ==
  /\ NewSession(Cur) <= MaxSessions
  /\ Becomes(GetOrCreateMemory(Cur, NewSession(Cur)))

\* periodic_cleanup: asyncio.sleep(3600) returned
PeriodicCleanup ==
  /\ Becomes(CleanupOldSessions(Cur))

NextCleanup ==
  \/ MemoryCreated
  \/ PeriodicCleanup

SpecCleanup == Init /\ [][NextCleanup]_vars

(***************************************************************************)
(* The registry under a capacity of two, from start-up: clients connect    *)
(* and are lost, sends fail, the heartbeat task pings the sessions and     *)
(* closes the stale ones.  The clients send no frame.                      *)
(***************************************************************************)
InitLifecycle ==
  /\ active_connections = {}
  /\ connection_info = {}
  /\ expired = {}
  /\ processing_connections = {}
  /\ heartbeat_task = FALSE
  /\ hb = "none"
  /\ child = [c \in Clients |-> "none"]
  /\ todo = {}
  /\ cur = 0
  /\ ws = [c \in Clients |-> "new"]
  /\ inbox = [c \in Clients |-> << >>]
  /\ pc = [c \in Clients |-> "idle"]
  /\ site = [c \in Clients |-> "none"]
  /\ pend = [c \in Clients |-> "none"]
  /\ query = [c \in Clients |-> NoQuery]
  /\ outcome = [c \in Clients |-> "none"]
  /\ exc = [c \in Clients |-> "none"]
  /\ invocations = [c \in Clients |-> 0]
  /\ memory_cache = << >>
  /\ search_stats = [total_searches |-> 0, successful_searches |-> 0, failed_searches |-> 0]
  /\ sent = 0
  /\ drops = 0
  /\ disconnect_errors = {}
  /\ max_connections = NumClients
  /\ memory_turns = [c \in Clients |-> 0]
  /\ raised = [c \in Clients |-> << >>]
  /\ stream = [c \in Clients |-> << >>]
  /\ message_count = [c \in Clients |-> 0]
  /\ attempts = [c \in Clients |-> 0]
  /\ emit_exc = [c \in Clients |-> "none"]
  /\ unrecorded = {}
  /\ SearchIdle
  /\ invoke_end = [c \in Clients |-> "none"]
  /\ uncounted = [c \in Clients |-> 0]
  /\ loops = [started |-> 0, stopped |-> 0]

NextLifecycle ==
  \/ NextIdle
  \/ \E c \in Clients : Connect(c)
  \/ \E c \in Clients : SendDone(c)
  \/ \E c \in Clients, kind \in FailureKinds : SendFailed(c, kind)
  \/ \E c \in Clients : SendDisconnected(c)

SpecLifecycle == InitLifecycle /\ [][NextLifecycle]_vars

(***************************************************************************)
(* Properties.                                                             *)
(***************************************************************************)
Registry ==
  << active_connections, connection_info, expired, processing_connections,
     heartbeat_task, hb, child, todo, cur >>

\* C1: for every session at most one engine invocation is running: no
\* invocation starts while an earlier one of the session has not returned.
OneEngineInvocationPerSession == \A c \in Clients : invocations[c] <= 1

\* C2: whenever the dispatch loop of a session waits for the next inbound
\* message (and before it started or after it ended), the session is not in
\* the executing set, whatever way the previous queries ended.
NoFlagLeak ==
  \A c \in Clients :
    pc[c] \in {"idle", "recv", "done"} => c \notin processing_connections

NoFlagLeakWitness ==
  \E c \in Clients :
    pc[c] = "recv" /\ outcome[c] = "AgentError" /\ c \notin processing_connections

\* C3: the number of registered sessions never exceeds the configured
\* capacity.
CapacityRespected == Cardinality(active_connections) <= max_connections

CapacityRespectedWitness ==
  /\ Cardinality(active_connections) = max_connections
  /\ \E c \in Clients : pc[c] = "rejecting"

\* C4: a Connect that finds the registry at capacity closes the offered
\* connection with the capacity status and registers nothing; it then fails
\* with ConnectionError; neither step changes the connection map, the
\* metadata map, the executing set or the liveness loop.
AdmissionRefusal ==
  [][\A c \in Clients :
       /\ (pc[c] = "idle" /\ pc'[c] # "idle"
             /\ Cardinality(active_connections) = max_connections)
            => (ws'[c] = "refused" /\ pc'[c] = "rejecting" /\ UNCHANGED Registry)
       /\ (pc[c] = "rejecting" /\ pc'[c] # "rejecting")
            => (pc'[c] = "done" /\ exc'[c] = "ConnectionError"
                  /\ c \notin active_connections' /\ UNCHANGED Registry)]_vars

AdmissionRefusalWitness ==
  \E c \in Clients :
    /\ pc[c] = "done" /\ ws[c] = "refused" /\ exc[c] = "ConnectionError"
    /\ Cardinality(active_connections) = max_connections

\* C5: every Disconnect call completes without raising, however the calls
\* for one session interleave.
DisconnectNeverRaises == disconnect_errors = {}

\* C6: whenever the transport send inside _send_to_connection fails, the
\* session is removed from the registry and the caller receives a
\* ConnectionError.
SendFailureRaisesConnectionError ==
  [][\A c \in Clients :
       (pc[c] \in {"send", "send_disc"} /\ site[c] # "internal"
          /\ pc'[c] \in {"done", "final_disc"})
         => (exc'[c] = "ConnectionError" /\ c \notin active_connections')]_vars

\* C7: a query sent while the session's previous query is still executing
\* is rejected with the rate-limit error: the engine is never invoked for it.
OverlappingQueryRejected ==
  \A c \in Clients : pc[c] = "await_engine" => ~query[c].busy

\* C8: once process_query has been called with a query shorter than 3
\* characters, longer than 1000 characters or containing a forbidden term in
\* any spelling, it has failed with ValidationError, no engine was created
\* or invoked and no search was counted.
InvalidQueryRejected ==
  \A c \in Clients :
    (/\ pc[c] \notin {"idle", "call"}
     /\ \/ query[c].text.len < MIN_QUERY_LENGTH
        \/ query[c].text.len > MAX_QUERY_LENGTH
        \/ query[c].text.term # "none")
      => /\ outcome[c] = "ValidationError"
         /\ invocations[c] = 0
         /\ c \notin Keys(memory_cache)
         /\ search_stats.total_searches = 0
         /\ search_stats.successful_searches = 0
         /\ search_stats.failed_searches = 0

InvalidQueryRejectedWitness ==
  \E c \in Clients :
    /\ pc[c] = "recv"
    /\ outcome[c] = "ValidationError"
    /\ query[c].text.len > MAX_QUERY_LENGTH

TimeoutClassified ==
  /\ [][\A c \in Clients :
          (pc[c] = "await_engine" /\ pc'[c] # "await_engine"
             /\ invocations'[c] = invocations[c])
            => outcome'[c] = "TimeoutError"]_vars
  /\ [](\A c \in Clients :
          (outcome[c] = "TimeoutError" /\ pc[c] \in {"recv", "final_disc", "done"})
            => c \notin processing_connections)

TimeoutClassifiedWitness ==
  \E c \in Clients :
    /\ outcome[c] = "TimeoutError"
    /\ pc[c] = "recv"
    /\ invocations[c] > 0
    /\ c \notin processing_connections

\* C11: when process_query fails with TimeoutError the session's memory is
\* left as it was before the call: the step that times out does not change
\* it, and the worker of the timed-out query, which nobody awaits any more,
\* never adds a turn to it.
TimeoutLeavesMemoryUnchanged ==
  [][\A c \in Clients :
       /\ (pc[c] = "await_engine" /\ pc'[c] # "await_engine"
             /\ outcome'[c] = "TimeoutError")
            => memory_turns'[c] = memory_turns[c]
       /\ (pc[c] # "await_engine" /\ invocations'[c] < invocations[c])
            => memory_turns'[c] = memory_turns[c]]_vars

FromEmitter(m) == m.by = "emitter"

FromRegistry(m) == m.by = "registry"

IsFinalOutput(m) == m.kind = "final_output"

IsError(m) == m.kind = "error"

IsMapped(e) == MessageOf(e) # "none"

\* the kinds of the messages the handler of the current query has sent
EmitterKinds(c) ==
  LET ms == SelectSeq(stream[c], FromEmitter)
  IN [i \in 1..Len(ms) |-> ms[i].kind]

\* the kinds mapped to the events that have a message kind
MappedKinds(c) ==
  LET es == SelectSeq(raised[c], IsMapped)
  IN [i \in 1..Len(es) |-> MessageOf(es[i])]

\* C12, as claimed: on a healthy connection the N events the engine raised
\* during one execution have produced exactly N messages, in the order of
\* the events, each of the kind mapped to its event.
OneMessagePerEvent ==
  \A c \in Clients :
    ws[c] = "open" =>
      EmitterKinds(c) = [i \in 1..Len(raised[c]) |-> MessageOf(raised[c][i])]

\* C12, amended: on a healthy connection the messages of the handler are,
\* in order, the kinds mapped to the events that have one (llm_start,
\* tool_start, tool_end, agent_action -> log; llm_new_token -> token;
\* llm_error, tool_error, chain_error -> error; agent_finish ->
\* final_output), and they are counted; llm_end, chain_start and chain_end
\* are logged and produce no message.
OneMessagePerMappedEvent ==
  \A c \in Clients :
    ws[c] = "open" =>
      /\ EmitterKinds(c) = MappedKinds(c)
      /\ message_count[c] = Len(MappedKinds(c))

OneMessagePerMappedEventWitness ==
  \E c \in Clients :
    /\ ws[c] = "open"
    /\ raised[c] = << "llm_end", "agent_finish" >>
    /\ EmitterKinds(c) = << "final_output" >>

\* C13: when process_query has returned a response on a healthy connection,
\* the last message sent to the client for that query is the final answer.
SuccessEndsWithFinalAnswer ==
  \A c \in Clients :
    (pc[c] = "recv" /\ outcome[c] \in {"Response", "Fallback"} /\ ws[c] = "open")
      => /\ stream[c] # << >>
         /\ IsFinalOutput(stream[c][Len(stream[c])])

\* C14: for one request the client gets at most one terminal outcome: the
\* final answers and the error reports of the pipeline number at most one.
AtMostOneTerminalOutcome ==
  \A c \in Clients :
    Len(SelectSeq(stream[c], IsFinalOutput))
      + Len(SelectSeq(stream[c], FromRegistry)) <= 1

\* C15: once a classified error of a query has been reported on a healthy
\* connection, the client has received exactly one error message for that
\* query.
OneErrorMessagePerError ==
  \A c \in Clients :
    (/\ pc[c] = "recv" /\ ws[c] = "open"
     /\ outcome[c] \in {"ValidationError", "TimeoutError", "AgentError"})
      => Len(SelectSeq(stream[c], IsError)) = 1

\* C16: a callback whose send fails makes that one attempt only, raises
\* ConnectionError, counts nothing and leaves the delivered messages
\* delivered; the handler makes one attempt per event that has a message
\* kind and counts exactly the messages it delivered.
EmitterFailureNotRetried ==
  /\ [][\A c \in Clients :
          (Len(raised'[c]) = Len(raised[c]) + 1 /\ ws[c] # "open"
             /\ IsMapped(raised'[c][Len(raised'[c])]))
            => /\ attempts'[c] = attempts[c] + 1
               /\ emit_exc'[c] = "ConnectionError"
               /\ message_count'[c] = message_count[c]
               /\ stream'[c] = stream[c]]_vars
  /\ [](\A c \in Clients :
          /\ attempts[c] = Len(SelectSeq(raised[c], IsMapped))
          /\ message_count[c] = Len(SelectSeq(stream[c], FromEmitter))
          /\ message_count[c] <= attempts[c])

EmitterFailureNotRetriedWitness ==
  \E c \in Clients :
    /\ emit_exc[c] = "ConnectionError"
    /\ attempts[c] = 2
    /\ message_count[c] = 1
    /\ Len(SelectSeq(stream[c], FromEmitter)) = 1

\* C17: a transport failure on a session's connection, in a send of the
\* registry or in a send of the handler during a query, leads to the
\* session being removed from the registry, and a dispatch task whose
\* registry send failed never goes back to sending.
TransportFailureDisconnects ==
  /\ \A c \in Clients :
       (emit_exc[c] = "ConnectionError" \/ pc[c] = "send_disc")
         ~> (c \notin active_connections)
  /\ [][\A c \in Clients :
          pc[c] = "send_disc" => pc'[c] \in {"send_disc", "final_disc", "done"}]_vars

TransportFailureDisconnectsWitness ==
  \E c \in Clients :
    /\ emit_exc[c] = "ConnectionError"
    /\ outcome[c] = "Response"
    /\ pc[c] = "done"
    /\ c \notin active_connections

\* C18: a live session with a healthy connection whose client sends nothing
\* is eventually removed from the registry by the heartbeat task (or its
\* connection stops being healthy first).
IdleSessionEventuallyReaped ==
  \A s \in Clients :
    (s \in active_connections /\ ws[s] = "open")
      ~> (s \notin active_connections \/ ws[s] # "open")

\* C19: the stale scan lists a session for disconnection only if the
\* session had no activity inside the window: no inbound message and no
\* outbound send since the moment its last_activity was set.
StaleScanSparesActiveSessions ==
  [][\A s \in Clients : s \in todo' \ todo => s \notin unrecorded]_vars

\* C20: while the heartbeat task goes on, a step of the heartbeat send of
\* one session, failed or not, leaves the heartbeat send of every other
\* session and the membership of every other session as they are; and the
\* heartbeat task runs as long as a session is registered.
HeartbeatFailureIsolated ==
  /\ [][\A s \in Clients :
          (child[s] \in {"send", "disc"} /\ child'[s] # child[s] /\ hb' # "none")
            => \A t \in Clients \ {s} :
                 /\ child'[t] = child[t]
                 /\ (t \in active_connections') = (t \in active_connections)]_vars
  /\ [](active_connections # {} => (heartbeat_task /\ hb # "none"))

HeartbeatFailureIsolatedWitness ==
  \E s \in Clients, t \in Clients :
    /\ s # t
    /\ s \notin active_connections /\ ws[s] = "closed" /\ pc[s] = "recv"
    /\ child[s] = "none"
    /\ t \in active_connections /\ child[t] = "send"
    /\ hb = "gather"


\* C21: a search_async call whose attempts all fail with a transient error
\* makes exactly 3 attempts: a transient failure before the third attempt
\* leads to the backoff, the third one ends the call with a failure, and no
\* call makes a fourth attempt.
RetryGivesUpAfterThreeAttempts ==
  /\ [][\A t \in Clients :
          (/\ search_call[t].at = "count_failed"
           /\ search_call[t].raised \in {"SearchError", "RateLimitError"}
           /\ search_call'[t].at # "count_failed")
            => IF search_call[t].runs < 3
                 THEN search_call'[t].at = "backoff"
                 ELSE search_call'[t].at = "idle" /\ search_call'[t].outcome = "RetryError"]_vars
  /\ [](\A t \in Clients :
          /\ search_call[t].runs <= 3
          /\ search_call[t].runs <= search_call[t].attempt_number
          /\ search_call[t].outcome = "RetryError"
               => (search_call[t].runs = 3 /\ search_call[t].failures = 3))

RetryGivesUpAfterThreeAttemptsWitness ==
  \E t \in Clients :
    /\ search_call[t].at = "idle"
    /\ search_call[t].outcome = "RetryError"
    /\ search_call[t].runs = 3

\* C22: in a call that fails transiently on all 3 attempts the backoff delay
\* before attempt 3 is strictly greater than the delay before attempt 2.
BackoffStrictlyIncreasing ==
  \A t \in Clients :
    Len(search_call[t].delays) >= 2
      => search_call[t].delays[2] > search_call[t].delays[1]

\* C23: an attempt that exceeds the hard timeout ends the call with
\* TimeoutError: no further attempt is made and one failure is counted; a
\* call whose first attempt times out has made exactly 1 attempt.
TimeoutNotRetried ==
  /\ [][\A t \in Clients :
          /\ (search_call[t].at = "run" /\ search_call'[t].raised = "TimeoutError")
               => search_call[t].timer = 0
          /\ (/\ search_call[t].at = "count_failed"
              /\ search_call[t].raised = "TimeoutError"
              /\ search_call'[t].at # "count_failed")
               => /\ search_call'[t].at = "idle"
                  /\ search_call'[t].outcome = "TimeoutError"
                  /\ search_call'[t].runs = search_call[t].runs
                  /\ search_call'[t].failures = search_call[t].failures + 1]_vars
  /\ [](\A t \in Clients :
          (search_call[t].outcome = "TimeoutError" /\ search_call[t].delays = << >>)
            => (search_call[t].runs = 1 /\ search_call[t].failures = 1))

TimeoutNotRetriedWitness ==
  \E t \in Clients :
    /\ search_call[t].at = "idle"
    /\ search_call[t].outcome = "TimeoutError"
    /\ search_call[t].runs = 1
    /\ search_call[t].failures = 1

\* C24: any two provider calls of the tool are issued at least the
\* configured minimum interval apart, whichever sessions issue them.
ProviderCallsSpaced ==
  [][\A t \in Clients :
       (search_call[t].at = "count_total" /\ search_call'[t].at = "run")
         => (last_issue = NoRequest \/ last_issue >= SEARCH_RATE_LIMIT_DELAY)]_vars

\* C25: no counter of the tool ever decreases, and whenever no attempt is
\* in flight total_searches = successful_searches + failed_searches.
CountersAtomic ==
  /\ [][/\ search_stats'.total_searches >= search_stats.total_searches
        /\ search_stats'.successful_searches >= search_stats.successful_searches
        /\ search_stats'.failed_searches >= search_stats.failed_searches]_vars
  /\ []((\A t \in Clients : search_call[t].at \in {"idle", "throttle", "backoff"})
          => search_stats.total_searches
               = search_stats.successful_searches + search_stats.failed_searches)


\* the dispatch task of client c calls process_query for the frame it
\* received
CallsProcessQuery(c) ==
  /\ pc[c] = "recv"
  /\ ws[c] \in {"open", "gone"}
  /\ inbox[c] # << >>
  /\ inbox'[c] # inbox[c]
  /\ ParseOk(Head(inbox[c]).frame)
  /\ c \notin processing_connections

\* C26: what process_query hands to the dispatch loop is a response or one
\* of ValidationError, TimeoutError and AgentError, each for its cause: a
\* query that fails validation gives ValidationError, an engine that cannot
\* be built gives AgentError, a wait that times out gives TimeoutError, and
\* an engine that ends in time gives a response or AgentError.
FailuresClassified ==
  /\ [](\A c \in Clients :
          outcome[c] \in {"none", "Response", "Fallback",
                          "ValidationError", "TimeoutError", "AgentError"})
  /\ [][\A c \in Clients :
          /\ (CallsProcessQuery(c) /\ ~ValidateQuery(UserQuery(Head(inbox[c]).frame)))
               => (outcome'[c] = "ValidationError" /\ invocations'[c] = invocations[c])
          /\ (/\ CallsProcessQuery(c)
              /\ ValidateQuery(UserQuery(Head(inbox[c]).frame))
              /\ pc'[c] # "await_engine")
               => (outcome'[c] = "AgentError" /\ invocations'[c] = invocations[c])
          /\ (/\ pc[c] = "await_engine" /\ pc'[c] # "await_engine"
              /\ invocations'[c] = invocations[c])
               => outcome'[c] = "TimeoutError"
          /\ (/\ pc[c] = "await_engine" /\ pc'[c] # "await_engine"
              /\ invocations'[c] < invocations[c])
               => outcome'[c] \in {"Response", "Fallback", "AgentError"}]_vars

FailuresClassifiedWitness ==
  \E c \in Clients :
    /\ pc[c] = "send" /\ site[c] = "query"
    /\ outcome[c] = "ValidationError"
    /\ ~ValidateQuery(query[c].text)
    /\ memory_turns[c] > 0


\* C27: when agent.invoke ends with a parsing failure, process_query
\* returns the response with the fixed apology: nothing is raised, no error
\* message is sent and the loop waits for the next frame with the flag
\* cleared; every other exception of agent.invoke gives AgentError.
ParsingFailureDowngraded ==
  /\ [](\A c \in Clients :
          /\ invoke_end[c] = "OutputParserException" => outcome[c] = "Fallback"
          /\ invoke_end[c] = "Exception" => outcome[c] = "AgentError"
          /\ (outcome[c] = "Fallback" /\ invoke_end[c] # "none")
               => invoke_end[c] = "OutputParserException")
  /\ [][\A c \in Clients :
          (invoke_end'[c] = "OutputParserException" /\ invoke_end[c] = "none")
            => /\ pc'[c] = "recv"
               /\ site'[c] = "none"
               /\ stream'[c] = stream[c]
               /\ c \notin processing_connections']_vars

ParsingFailureDowngradedWitness ==
  \E c \in Clients :
    /\ invoke_end[c] = "OutputParserException"
    /\ outcome[c] = "Fallback"
    /\ pc[c] = "recv"
    /\ stream[c] = << >>


Unclassified == {"TypeError", "RuntimeError", "KeyError"}

FromBoundary(m) == m.by = "internal"

\* C28: an unclassified exception in the message loop of a session is
\* caught: the internal error is reported when the session is still
\* registered, exactly one message if the connection accepts it, the loop
\* is never resumed, and when the endpoint has ended the connection is
\* closed and the session is out of the registry.
UnclassifiedEndsSession ==
  /\ [][\A c \in Clients :
          /\ (exc'[c] \in Unclassified /\ exc[c] \notin Unclassified
                /\ c \in active_connections')
               => (pc'[c] = "send" /\ site'[c] = "internal")
          /\ (pc[c] = "send" /\ site[c] = "internal" /\ pc'[c] # "send" /\ ws[c] = "open")
               => stream'[c] = Append(stream[c], [kind |-> "error", by |-> "internal"])
          /\ exc[c] \in Unclassified => pc'[c] \notin {"recv", "await_engine"}]_vars
  /\ [](\A c \in Clients :
          /\ Len(SelectSeq(stream[c], FromBoundary)) <= 1
          /\ (exc[c] \in Unclassified /\ pc[c] = "done")
               => (c \notin active_connections /\ ws[c] = "closed"))

UnclassifiedEndsSessionWitness ==
  \E c \in Clients :
    /\ exc[c] = "TypeError"
    /\ pc[c] = "done"
    /\ Len(SelectSeq(stream[c], FromBoundary)) = 1
    /\ c \notin active_connections
    /\ ws[c] = "closed"


\* C29: a cleanup run leaves a cache of at most 100 sessions as it is and
\* takes the 50 oldest-inserted sessions out of a larger one, keeping all
\* others in their order, so that the growth of the cache is bounded: a
\* cache that the cleanup has just run on holds at most 100 sessions.
CleanupBoundsCache ==
  [][memory_cache' # memory_cache /\ Len(memory_cache') <= Len(memory_cache)
       => /\ Len(memory_cache) > CLEANUP_LIMIT
          /\ memory_cache' = SubSeq(memory_cache, CLEANUP_COUNT + 1, Len(memory_cache))
          /\ Len(memory_cache') <= CLEANUP_LIMIT]_vars


\* C30: in every state the connection map and the metadata map of the
\* registry hold the same session ids.
RegistryMapsAgree == active_connections = connection_info

RegistryMapsAgreeWitness ==
  \E c \in Clients, d \in Clients :
    /\ c \in disconnect_errors
    /\ c \notin active_connections /\ c \notin connection_info
    /\ d \in active_connections /\ d \in connection_info
    /\ pc[d] = "recv"


\* the _heartbeat_loop tasks that were created and have not been stopped
ActiveLoops == loops.started - loops.stopped

\* C31: at most one heartbeat task is active, and one is active exactly
\* while a session is registered: the connect that registers the first
\* session starts a task, a connect that finds a session registered starts
\* none and leaves the running task as it is, the removal of the last
\* session stops the task, also when the task itself or one of its sends
\* removes it, and the next connect starts a new task.
OneLivenessLoop ==
  /\ [](/\ ActiveLoops \in {0, 1}
        /\ ActiveLoops = 1 <=> active_connections # {}
        /\ ActiveLoops = 1 <=> (heartbeat_task /\ hb # "none"))
  /\ [][/\ (active_connections = {} /\ active_connections' # {})
             => (loops'.started = loops.started + 1 /\ hb' = "sleep")
        /\ (active_connections # {} /\ active_connections' # {})
             => loops' = loops
        /\ (active_connections # {} /\ active_connections' \ active_connections # {})
             => (hb' = hb /\ child' = child /\ todo' = todo /\ cur' = cur)
        /\ (active_connections # {} /\ active_connections' = {})
             => (loops'.stopped = loops.stopped + 1 /\ hb' = "none"
                   /\ \A s \in Clients : child'[s] = "none")]_vars

\* the heartbeat task has removed the last session, whose dispatch task
\* still waits for a frame, and is stopped
OneLivenessLoopWitness ==
  \E c \in Clients :
    /\ active_connections = {}
    /\ loops = [started |-> 1, stopped |-> 1]
    /\ hb = "none"
    /\ pc[c] = "recv" /\ ws[c] = "closed"


\* the memory of session c is created, appended to or removed in this step
MemoryChanges(c) ==
  \/ memory_turns'[c] # memory_turns[c]
  \/ (c \in Keys(memory_cache')) # (c \in Keys(memory_cache))

\* C32: the memory of a session is created, appended to or removed only by
\* the query that holds the execution flag of the session: the query that
\* takes the flag in that step, or the awaited query, with the flag set,
\* when its engine ends.
MemoryGuardedByFlag ==
  [][\A c \in Clients :
       MemoryChanges(c)
         => \/ /\ pc[c] = "recv"
               /\ c \notin processing_connections
               /\ inbox'[c] # inbox[c]
            \/ /\ pc[c] = "await_engine"
               /\ pc'[c] # "await_engine"
               /\ c \in processing_connections]_vars


\* C33: once a disconnect has closed the connection of a session and taken
\* the session out of the registry, whatever called it, the memory cache
\* holds no conversation memory for the session.
MemoryDestroyedWithSession ==
  \A c \in Clients :
    (c \notin active_connections /\ ws[c] = "closed")
      => c \notin Keys(memory_cache)


\* C34: the last-activity timestamp and the message counter of a registered
\* session reflect every message received from it and every message sent
\* to it, those of the handler of a query included, so that
\* total_messages_sent of get_stats is the number of messages sent to the
\* registered sessions.
ActivityAndCountComplete ==
  \A s \in connection_info : s \notin unrecorded /\ uncounted[s] = 0


\* C35: the sessions marked as processing are registered sessions, so that
\* processing_connections of get_stats is at most active_connections: the
\* step that removes a session clears its flag, and the flag is set only
\* for a session that is registered, also when the heartbeat task or its
\* stale scan removes a session whose dispatch task is in the middle of a
\* query.
ExecutingSubsetOfLive ==
  /\ [](/\ processing_connections \subseteq active_connections
        /\ Cardinality(processing_connections) <= Cardinality(active_connections))
  /\ [][\A c \in Clients :
          /\ (c \in active_connections /\ c \notin active_connections')
               => c \notin processing_connections'
          /\ (c \notin processing_connections /\ c \in processing_connections')
               => (c \in active_connections /\ c \in active_connections')]_vars

\* the stale scan has removed a session whose query is still executing
ExecutingSubsetOfLiveWitness ==
  \E c \in Clients :
    /\ pc[c] = "await_engine"
    /\ c \notin active_connections
    /\ c \notin processing_connections
    /\ c \notin disconnect_errors
    /\ ws[c] = "closed"
    /\ drops = 0


\* C36: when the send of the welcome message fails, connect raises and the
\* endpoint ends without entering its message loop; at that moment the
\* session is in neither map of the registry nor marked as processing, the
\* registered sessions are those of before without it, and no heartbeat
\* task is left running when no session is registered.
WelcomeFailureLeavesNothing ==
  /\ [][\A c \in Clients :
          /\ (pc[c] = "send" /\ site[c] = "welcome" /\ ws[c] # "open" /\ pc'[c] # "send")
               => pc'[c] \in {"send_disc", "done"}
          /\ (pc[c] = "send_disc" /\ site[c] = "welcome" /\ pc'[c] # "send_disc")
               => pc'[c] = "done"
          /\ (pc[c] \in {"send", "send_disc"} /\ site[c] = "welcome" /\ pc'[c] = "done")
               => /\ exc'[c] \in {"WebSocketDisconnect", "ConnectionError", "KeyError"}
                  /\ c \notin active_connections'
                  /\ c \notin connection_info'
                  /\ c \notin processing_connections'
                  /\ active_connections' = active_connections \ {c}
                  /\ active_connections' = {}
                       => /\ ~heartbeat_task'
                          /\ hb' = "none"
                          /\ loops'.started = loops'.stopped]_vars
  /\ [](\A c \in Clients :
          (pc[c] = "done" /\ exc[c] \in {"ConnectionError", "KeyError"})
            => /\ c \notin active_connections
               /\ c \notin connection_info
               /\ c \notin processing_connections)

\* the welcome message of the only session could not be sent: connect has
\* raised ConnectionError and the registry is empty again, its heartbeat
\* task stopped
WelcomeFailureLeavesNothingWitness ==
  \E c \in Clients :
    /\ pc[c] = "done"
    /\ exc[c] = "ConnectionError"
    /\ ws[c] = "closed"
    /\ active_connections = {}
    /\ connection_info = {}
    /\ hb = "none"
    /\ loops = [started |-> 1, stopped |-> 1]

====
